---- MODULE Spec2Model ----
(***************************************************************************)
(* A model of the messaging client of xmtp-js                              *)
(* (packages/messaging/src/Client.ts): create, close, sendMessage,         *)
(* streamMessages and listMessages over a js-waku transport handle (relay  *)
(* + store), with the key bundles and the envelope codec as collaborators, *)
(* and of the newKeystore contract of the key generator keystore provider. *)
(*                                                                         *)
(* Every async function is cut at its awaits: one action runs the code     *)
(* from one suspension point to the next.                                  *)
(***************************************************************************)
EXTENDS Integers, Sequences, FiniteSets, Bags, TLC

VARIABLES
    sends,        \* one record per sendMessage call
    encryptLog,   \* every call of PrivateKeyBundle.encrypt made by sendMessage
    relaySent,    \* every call of waku.relay.send
    inflight,     \* the waku messages the relay still has to deliver (a bag)
    observers,    \* waku.relay.observers: (contentTopic, callback) pairs
    streams,      \* one record per streamMessages call
    pending,      \* observer callbacks suspended at `await recipient.decrypt` (a bag)
    injected,     \* number of payloads other peers have published so far
    list,         \* the listMessages call in progress, or the last one
    topics,       \* the buildContentTopic calls made directly: identifier and outcome
    keystores,    \* one record per newKeystore call of the key generator provider
    creates       \* one record per Client.create call, with its waku node

vars == <<sends, encryptLog, relaySent, inflight, observers, streams, pending, injected, list,
          topics, keystores, creates>>

\* The variables of the messaging operations of a client
messaging == <<sends, encryptLog, relaySent, inflight, observers, streams, pending, injected,
               list>>

----------------------------------------------------------------------------
(* Bounds of the model *)

\* sendMessage calls
MaxSends == 2
\* sendMessage and streamMessages calls, invocations of cancellation handles
\* and payloads of peers, together
MaxEvents == 4
\* items in a result of the store
MaxItems == 2
\* newKeystore calls
MaxKeystores == 3
\* Client.create calls
MaxCreates == 2

----------------------------------------------------------------------------
(* Optional values (`x?: T`): <<>> is undefined, <<v>> is the value v *)

None == <<>>
Some(v) == <<v>>
IsSome(o) == o # <<>>
Get(o) == o[1]

----------------------------------------------------------------------------
(* Strings and TextEncoder / TextDecoder                                    *)
(* A JavaScript string is a sequence of UTF-16 code units.                  *)

IsHighSurrogate(u) == u >= 55296 /\ u <= 56319
IsLowSurrogate(u) == u >= 56320 /\ u <= 57343
IsContinuation(b) == b >= 128 /\ b <= 191

RECURSIVE TextEncode(_)
TextEncode(str) ==
    IF str = <<>> THEN <<>>
    ELSE LET u == Head(str) IN
         IF u < 128 THEN <<u>> \o TextEncode(Tail(str))
         ELSE IF u < 2048
         THEN <<192 + (u \div 64), 128 + (u % 64)>> \o TextEncode(Tail(str))
         ELSE IF IsHighSurrogate(u) /\ Len(str) >= 2 /\ IsLowSurrogate(str[2])
         THEN LET cp == 65536 + (u - 55296) * 1024 + (str[2] - 56320)
              IN <<240 + (cp \div 262144), 128 + ((cp \div 4096) % 64),
                   128 + ((cp \div 64) % 64), 128 + (cp % 64)>>
                 \o TextEncode(Tail(Tail(str)))
         ELSE IF IsHighSurrogate(u) \/ IsLowSurrogate(u)
         THEN <<239, 191, 189>> \o TextEncode(Tail(str))   \* U+FFFD
         ELSE <<224 + (u \div 4096), 128 + ((u \div 64) % 64), 128 + (u % 64)>>
              \o TextEncode(Tail(str))

RECURSIVE TextDecode(_)
TextDecode(bytes) ==
    IF bytes = <<>> THEN <<>>
    ELSE LET b == Head(bytes)
             n == Len(bytes)
         IN
         IF b < 128 THEN <<b>> \o TextDecode(Tail(bytes))
         ELSE IF b >= 194 /\ b <= 223 /\ n >= 2 /\ IsContinuation(bytes[2])
         THEN <<(b - 192) * 64 + (bytes[2] - 128)>> \o TextDecode(SubSeq(bytes, 3, n))
         ELSE IF b >= 224 /\ b <= 239 /\ n >= 3
                 /\ IsContinuation(bytes[2]) /\ IsContinuation(bytes[3])
         THEN <<(b - 224) * 4096 + (bytes[2] - 128) * 64 + (bytes[3] - 128)>>
              \o TextDecode(SubSeq(bytes, 4, n))
         ELSE IF b >= 240 /\ b <= 244 /\ n >= 4 /\ IsContinuation(bytes[2])
                 /\ IsContinuation(bytes[3]) /\ IsContinuation(bytes[4])
         THEN LET cp == (b - 240) * 262144 + (bytes[2] - 128) * 4096
                        + (bytes[3] - 128) * 64 + (bytes[4] - 128)
              IN <<55296 + ((cp - 65536) \div 1024), 56320 + ((cp - 65536) % 1024)>>
                 \o TextDecode(SubSeq(bytes, 5, n))
         ELSE <<65533>> \o TextDecode(Tail(bytes))         \* U+FFFD

\* "a" and a lone high surrogate
Plaintexts == {<<97>>, <<55357>>}

----------------------------------------------------------------------------
(* Key bundles (./crypto)                                                   *)

Keys == {"kA", "kB"}

PrivateKey(k) == [kind |-> "private", key |-> k]
PublicKey(k) == [kind |-> "public", key |-> k]

getPublicKey(privateKey) == PublicKey(privateKey.key)

getEthereumAddress(publicKey) ==
    IF publicKey.key = "kA" THEN "0xA11ce" ELSE "0xB0b"

\* PrivateKeyBundle.getKeyBundle(): the public bundle of a private bundle
getKeyBundle(bundle) ==
    [identityKey |-> IF IsSome(bundle.identityKey)
                     THEN Some(getPublicKey(Get(bundle.identityKey)))
                     ELSE None]

PrivateKeyBundles ==
    {[identityKey |-> Some(PrivateKey(k))] : k \in Keys} \cup {[identityKey |-> None]}

KeyBundles == {getKeyBundle(b) : b \in PrivateKeyBundles}

\* sender.encrypt(bytes, recipient), when it succeeds
Encrypt(sender, bytes, recipient) ==
    [from |-> getKeyBundle(sender).identityKey,
     to |-> recipient.identityKey,
     body |-> bytes]

\* recipient.decrypt(ciphertext, sender): fails unless the ciphertext was made
\* by that sender for this recipient
Decrypt(recipient, ciphertext, sender) ==
    IF ciphertext.to = getKeyBundle(recipient).identityKey
       /\ ciphertext.from = sender.identityKey
    THEN [ok |-> TRUE, bytes |-> ciphertext.body]
    ELSE [ok |-> FALSE, bytes |-> <<>>]

----------------------------------------------------------------------------
(* Message (./message/Message): the envelope and its codec                  *)

NewMessage(header, ciphertext) ==
    [header |-> header, ciphertext |-> ciphertext, decrypted |-> None]

\* msg.toBytes(): header and ciphertext, never the local `decrypted`
MessageToBytes(msg) == <<"envelope", msg.header, msg.ciphertext>>

Garbage == <<"garbage">>

\* Message.fromBytes(bytes) throws on bytes that are no envelope
Decodable(bytes) == bytes[1] = "envelope"

MessageFromBytes(bytes) == NewMessage(bytes[2], bytes[3])

----------------------------------------------------------------------------
(* Client.ts                                                                *)

\* Every string to a single topic
buildContentTopicShared(name) == "/xmtp/0/proto"

buildContentTopic(name) == "/xmtp/0/" \o name \o "/proto"

\* new Promise(resolve => ...): resolve settles a promise once, later calls
\* of resolve do nothing
PendingPromise == [state |-> "pending", value |-> <<>>]

Resolve(promise, value) ==
    IF promise.state = "pending"
    THEN [state |-> "fulfilled", value |-> value]
    ELSE promise

WakuMessageFromBytes(payload, contentTopic) ==
    [payload |-> Some(payload), contentTopic |-> contentTopic]

\* listMessages has not been called yet
IdleList ==
    [pc |-> "idle", recipient |-> [identityKey |-> None],
     opts |-> [pageSize |-> None, startTime |-> None, endTime |-> None],
     error |-> "", queries |-> {}, promises |-> <<>>, result |-> <<>>,
     outOfOrder |-> FALSE]

Init ==
    /\ sends = <<>>
    /\ encryptLog = {}
    /\ relaySent = {}
    /\ inflight = EmptyBag
    /\ observers = {}
    /\ streams = <<>>
    /\ pending = EmptyBag
    /\ injected = 0
    /\ list = IdleList
    /\ topics = {}
    /\ keystores = <<>>
    /\ creates = <<>>

----------------------------------------------------------------------------
(* sendMessage(sender, recipient, msgString), lines 79-113                  *)

\* How many times the cancellation handles of the first n streams have been
\* invoked so far
RECURSIVE CloseCalls(_)
CloseCalls(n) == IF n = 0 THEN 0 ELSE streams[n].closes + CloseCalls(n - 1)

\* What counts against MaxEvents: the calls of sendMessage and streamMessages,
\* the invocations of cancellation handles, the payloads of peers and the
\* topic derivations so far
Events == Len(sends) + Len(streams) + CloseCalls(Len(streams)) + injected
          + Cardinality(topics)

\* The calls of encrypt and of relay.send that sendMessage call i has made
EncryptCalls(i) == {e \in encryptLog : e.call = i}
RelaySendCalls(i) == {e \in relaySent : e.call = i}

\* A collaborator call of sendMessage call i settles, fulfilled or rejected
Settle(log, i, ok) ==
    {IF e.call = i /\ e.outcome = "pending"
     THEN [e EXCEPT !.outcome = IF ok THEN "fulfilled" ELSE "rejected"]
     ELSE e : e \in log}

ActiveStreams ==
    {s \in DOMAIN streams : streams[s].error = "" /\ streams[s].closes = 0}

SendRecord(sender, recipient, msgString) ==
    [sender |-> sender, recipient |-> recipient, msgString |-> msgString,
     pc |-> "start", error |-> "", contentTopic |-> "",
     msg |-> None, wakuMsg |-> None, activeAtSend |-> {}]

SetSend(i, rec) == sends' = [sends EXCEPT ![i] = rec]

\* sendMessage with the recipient checked only after encrypt has been called
SendMessageLateCheck(sender, recipient, msgString) ==
    /\ Len(sends) < MaxSends
    /\ Events < MaxEvents
    /\ LET call == Len(sends) + 1
           rec == SendRecord(sender, recipient, msgString)
       IN
       /\ encryptLog' = encryptLog \cup
              {[call |-> call, n |-> 1, sender |-> sender, bytes |-> TextEncode(msgString),
                recipient |-> recipient, outcome |-> "pending"]}
       /\ IF ~IsSome(recipient.identityKey)
          THEN sends' = Append(sends, [rec EXCEPT !.pc = "rejected",
                                                  !.error = "missing recipient"])
          ELSE sends' = Append(sends, [rec EXCEPT
                   !.pc = "encrypt",
                   !.contentTopic = buildContentTopic(
                       getEthereumAddress(Get(recipient.identityKey)))])
    /\ UNCHANGED <<relaySent, inflight, observers, streams, pending, injected, list,
                 topics, keystores, creates>>

\* The call, up to `await sender.encrypt(msgBytes, recipient)`
SendMessage(sender, recipient, msgString) ==
    /\ Len(sends) < MaxSends
    /\ Events < MaxEvents
    /\ LET call == Len(sends) + 1
           rec == SendRecord(sender, recipient, msgString)
       IN
       IF ~IsSome(recipient.identityKey)
       THEN /\ sends' = Append(sends, [rec EXCEPT !.pc = "rejected",
                                                  !.error = "missing recipient"])
            /\ UNCHANGED encryptLog
       ELSE LET contentTopic ==
                    buildContentTopic(getEthereumAddress(Get(recipient.identityKey)))
                msgBytes == TextEncode(msgString)
            IN
            /\ sends' = Append(sends, [rec EXCEPT !.pc = "encrypt",
                                                  !.contentTopic = contentTopic])
            /\ encryptLog' = encryptLog \cup
                   {[call |-> call, n |-> 1, sender |-> sender, bytes |-> msgBytes,
                     recipient |-> recipient, outcome |-> "pending"]}
    /\ UNCHANGED <<relaySent, inflight, observers, streams, pending, injected, list,
                 topics, keystores, creates>>

\* sendMessage with a rejected encrypt swallowed: it goes on with no ciphertext
EncryptSettlesSwallowed(i, ok) ==
    /\ i \in DOMAIN sends
    /\ sends[i].pc = "encrypt"
    /\ LET c == sends[i]
           msg == NewMessage(Some([sender |-> Some(getKeyBundle(c.sender)),
                                   recipient |-> Some(c.recipient)]),
                             IF ok
                             THEN Some(Encrypt(c.sender, TextEncode(c.msgString), c.recipient))
                             ELSE None)
       IN SetSend(i, [c EXCEPT !.pc = "fromBytes",
                               !.msg = Some([msg EXCEPT !.decrypted = Some(c.msgString)])])
    /\ encryptLog' = Settle(encryptLog, i, ok)
    /\ UNCHANGED <<relaySent, inflight, observers, streams, pending, injected, list,
                 topics, keystores, creates>>

\* sender.encrypt settles; on success the message is built and
\* `await WakuMessage.fromBytes(msg.toBytes(), contentTopic, {timestamp})` is reached
EncryptSettles(i, ok) ==
    /\ i \in DOMAIN sends
    /\ sends[i].pc = "encrypt"
    /\ LET c == sends[i] IN
       IF ~ok
       THEN SetSend(i, [c EXCEPT !.pc = "rejected", !.error = "EncryptionError"])
       ELSE LET ciphertext == Encrypt(c.sender, TextEncode(c.msgString), c.recipient)
                msg == NewMessage(Some([sender |-> Some(getKeyBundle(c.sender)),
                                        recipient |-> Some(c.recipient)]),
                                  Some(ciphertext))
            IN SetSend(i, [c EXCEPT !.pc = "fromBytes",
                                    !.msg = Some([msg EXCEPT !.decrypted = Some(c.msgString)])])
    /\ encryptLog' = Settle(encryptLog, i, ok)
    /\ UNCHANGED <<relaySent, inflight, observers, streams, pending, injected, list,
                 topics, keystores, creates>>

\* sendMessage with the attached plaintext serialized next to the envelope
FromBytesSettlesWithPlaintext(i) ==
    /\ i \in DOMAIN sends
    /\ sends[i].pc = "fromBytes"
    /\ LET c == sends[i]
           wakuMsg == WakuMessageFromBytes(
                          MessageToBytes(Get(c.msg)) \o <<Get(c.msg).decrypted>>,
                          c.contentTopic)
       IN
       /\ SetSend(i, [c EXCEPT !.pc = "relaySend", !.wakuMsg = Some(wakuMsg),
                               !.activeAtSend = ActiveStreams])
       /\ relaySent' = relaySent \cup
              {[call |-> i, n |-> Cardinality(RelaySendCalls(i)) + 1, wakuMsg |-> wakuMsg,
                outcome |-> "pending"]}
    /\ UNCHANGED <<encryptLog, inflight, observers, streams, pending, injected, list,
                 topics, keystores, creates>>

\* WakuMessage.fromBytes settles and `this.waku.relay.send(wakuMsg)` is called
FromBytesSettles(i) ==
    /\ i \in DOMAIN sends
    /\ sends[i].pc = "fromBytes"
    /\ LET c == sends[i]
           wakuMsg == WakuMessageFromBytes(MessageToBytes(Get(c.msg)), c.contentTopic)
       IN
       /\ SetSend(i, [c EXCEPT !.pc = "relaySend", !.wakuMsg = Some(wakuMsg),
                               !.activeAtSend = ActiveStreams])
       /\ relaySent' = relaySent \cup
              {[call |-> i, n |-> Cardinality(RelaySendCalls(i)) + 1, wakuMsg |-> wakuMsg,
                outcome |-> "pending"]}
    /\ UNCHANGED <<encryptLog, inflight, observers, streams, pending, injected, list,
                 topics, keystores, creates>>

\* sendMessage with a rejected relay.send retried
RelaySendSettlesRetried(i, ok) ==
    /\ i \in DOMAIN sends
    /\ sends[i].pc = "relaySend"
    /\ LET c == sends[i] IN
       IF ok
       THEN /\ SetSend(i, [c EXCEPT !.pc = "resolved"])
            /\ inflight' = inflight (+) SetToBag({Get(c.wakuMsg)})
            /\ relaySent' = Settle(relaySent, i, ok)
       ELSE /\ UNCHANGED <<sends, inflight>>
            /\ relaySent' = Settle(relaySent, i, ok) \cup
                   {[call |-> i, n |-> Cardinality(RelaySendCalls(i)) + 1,
                     wakuMsg |-> Get(c.wakuMsg), outcome |-> "pending"]}
    /\ UNCHANGED <<encryptLog, observers, streams, pending, injected, list,
                 topics, keystores, creates>>

\* relay.send settles: sendMessage returns its promise, so its outcome is the
\* outcome of the call; a message the relay accepted is on its way to the
\* observers of its topic (emitSelf: the local ones too)
RelaySendSettles(i, ok) ==
    /\ i \in DOMAIN sends
    /\ sends[i].pc = "relaySend"
    /\ LET c == sends[i] IN
       IF ok
       THEN /\ SetSend(i, [c EXCEPT !.pc = "resolved"])
            /\ inflight' = inflight (+) SetToBag({Get(c.wakuMsg)})
       ELSE /\ SetSend(i, [c EXCEPT !.pc = "rejected", !.error = "TransportError"])
            /\ UNCHANGED inflight
    /\ relaySent' = Settle(relaySent, i, ok)
    /\ UNCHANGED <<encryptLog, observers, streams, pending, injected, list,
                 topics, keystores, creates>>

----------------------------------------------------------------------------
(* The relay's observer registry (waku.relay.addObserver / deleteObserver): *)
(* a set of callbacks per content topic, compared by identity               *)

\* The async arrow function of line 134, created by streamMessages call s
ObserverOf(s) == [kind |-> "observer", stream |-> s]

\* The arrow function `() => ({})` of line 151, created anew by every call of
\* the close handle of stream s
CloseArrow(s, n) == [kind |-> "noop", stream |-> s, n |-> n]

AddObserver(registry, callback, contentTopic) ==
    registry \cup {[contentTopic |-> contentTopic, callback |-> callback]}

DeleteObserver(registry, callback, contentTopic) ==
    registry \ {[contentTopic |-> contentTopic, callback |-> callback]}

Registered(s) ==
    [contentTopic |-> streams[s].contentTopic, callback |-> ObserverOf(s)] \in observers

----------------------------------------------------------------------------
(* streamMessages(recipient), lines 115-153                                 *)

StreamRecord(recipient) ==
    [recipient |-> recipient, error |-> "", contentTopic |-> "",
     promise |-> PendingPromise, closes |-> 0, delivered |-> <<>>]

\* streamMessages without the check of line 118: the observer is registered
\* whatever the bundle holds
StreamMessagesUnchecked(recipient) ==
    /\ Events < MaxEvents
    /\ LET s == Len(streams) + 1
           contentTopic ==
               IF IsSome(recipient.identityKey)
               THEN buildContentTopic(
                        getEthereumAddress(getPublicKey(Get(recipient.identityKey))))
               ELSE buildContentTopic("undefined")
       IN
       /\ streams' = Append(streams, [StreamRecord(recipient) EXCEPT
                                         !.contentTopic = contentTopic])
       /\ observers' = AddObserver(observers, ObserverOf(s), contentTopic)
    /\ UNCHANGED <<sends, encryptLog, relaySent, inflight, pending, injected, list,
                 topics, keystores, creates>>

\* The whole call is synchronous: the promise executor runs inside `new Promise`
StreamMessages(recipient) ==
    /\ Events < MaxEvents
    /\ LET s == Len(streams) + 1
           rec == StreamRecord(recipient)
       IN
       IF ~IsSome(recipient.identityKey)
       THEN /\ streams' = Append(streams, [rec EXCEPT !.error = "missing recipient"])
            /\ UNCHANGED observers
       ELSE LET contentTopic == buildContentTopic(
                    getEthereumAddress(getPublicKey(Get(recipient.identityKey))))
            IN
            /\ streams' = Append(streams, [rec EXCEPT !.contentTopic = contentTopic])
            /\ observers' = AddObserver(observers, ObserverOf(s), contentTopic)
    /\ UNCHANGED <<sends, encryptLog, relaySent, inflight, pending, injected, list,
                 topics, keystores, creates>>

\* The cancellation handle: close(), lines 150-151
Close(s) ==
    /\ s \in DOMAIN streams
    /\ streams[s].error = ""
    /\ Events < MaxEvents
    /\ observers' = DeleteObserver(observers,
                                   CloseArrow(s, streams[s].closes + 1),
                                   streams[s].contentTopic)
    /\ streams' = [streams EXCEPT ![s].closes = @ + 1]
    /\ UNCHANGED <<sends, encryptLog, relaySent, inflight, pending, injected, list,
                 topics, keystores, creates>>

----------------------------------------------------------------------------
(* The observer callback, lines 134-146                                     *)

\* The callback from its start to its first suspension point or its end
ObserverStart(wakuMsg) ==
    IF ~IsSome(wakuMsg.payload)
    THEN [kind |-> "ignored"]
    ELSE IF ~Decodable(Get(wakuMsg.payload))
    THEN [kind |-> "threw"]
    ELSE LET msg == MessageFromBytes(Get(wakuMsg.payload)) IN
         IF IsSome(msg.ciphertext) /\ IsSome(msg.header)
            /\ IsSome(Get(msg.header).sender)
         THEN [kind |-> "decrypt", msg |-> msg]
         ELSE [kind |-> "resolve", msg |-> msg]

\* The callback after `await recipient.decrypt(...)`: a failed decrypt rejects
\* the callback's own promise, which nobody awaits
ObserverResume(stream, msg) ==
    LET r == Decrypt(stream.recipient, Get(msg.ciphertext), Get(Get(msg.header).sender))
    IN IF r.ok
       THEN [stream EXCEPT !.promise =
                Resolve(@, <<[msg EXCEPT !.decrypted = Some(TextDecode(r.bytes))]>>)]
       ELSE stream

\* The callback with the decoding error caught and the stream resolved empty
ObserverCalledCatching(stream, wakuMsg) ==
    LET o == ObserverStart(wakuMsg)
        seen == [stream EXCEPT !.delivered =
                    Append(@, [payload |-> wakuMsg.payload, contentTopic |-> wakuMsg.contentTopic,
                               cancelled |-> stream.closes > 0])]
    IN IF o.kind = "resolve"
       THEN [seen EXCEPT !.promise = Resolve(@, <<o.msg>>)]
       ELSE IF o.kind = "threw"
       THEN [seen EXCEPT !.promise = Resolve(@, <<>>)]
       ELSE seen

\* The callback is called: what it does to its stream before it suspends or ends
ObserverCalled(stream, wakuMsg) ==
    LET o == ObserverStart(wakuMsg)
        seen == [stream EXCEPT !.delivered =
                    Append(@, [payload |-> wakuMsg.payload, contentTopic |-> wakuMsg.contentTopic,
                               cancelled |-> stream.closes > 0])]
    IN IF o.kind = "resolve"
       THEN [seen EXCEPT !.promise = Resolve(@, <<o.msg>>)]
       ELSE seen

\* The callbacks that a delivery leaves suspended at the decrypt
NewTasks(targets, wakuMsg) ==
    IF ObserverStart(wakuMsg).kind = "decrypt"
    THEN SetToBag({[stream |-> s, msg |-> ObserverStart(wakuMsg).msg] : s \in targets})
    ELSE EmptyBag

\* The relay delivers one message: every callback registered for its content
\* topic is called
Deliver(wakuMsg) ==
    /\ BagIn(wakuMsg, inflight)
    /\ LET targets == {s \in DOMAIN streams :
                          [contentTopic |-> wakuMsg.contentTopic,
                           callback |-> ObserverOf(s)] \in observers}
       IN
       /\ streams' = [s \in DOMAIN streams |->
                         IF s \in targets
                         THEN ObserverCalled(streams[s], wakuMsg)
                         ELSE streams[s]]
       /\ pending' = pending (+) NewTasks(targets, wakuMsg)
    /\ inflight' = inflight (-) SetToBag({wakuMsg})
    /\ UNCHANGED <<sends, encryptLog, relaySent, observers, injected, list,
                 topics, keystores, creates>>

\* recipient.decrypt settles for one suspended callback
DecryptSettles(task) ==
    /\ BagIn(task, pending)
    /\ streams' = [streams EXCEPT ![task.stream] = ObserverResume(@, task.msg)]
    /\ pending' = pending (-) SetToBag({task})
    /\ UNCHANGED <<sends, encryptLog, relaySent, inflight, observers, injected, list,
                 topics, keystores, creates>>

----------------------------------------------------------------------------
(* Other peers of the network publish on the same topics                    *)

Senders == {[identityKey |-> Some(PrivateKey("kB"))]}

Topics == {buildContentTopic(getEthereumAddress(PublicKey(k))) : k \in Keys}

\* What another peer can put on a topic: no payload, bytes that are no
\* envelope, an envelope kB encrypted for kA, one without ciphertext and one
\* without header
PeerPayloads ==
    { None,
      Some(Garbage),
      Some(MessageToBytes(NewMessage(
          Some([sender |-> Some([identityKey |-> Some(PublicKey("kB"))]),
                recipient |-> Some([identityKey |-> Some(PublicKey("kA"))])]),
          Some(Encrypt([identityKey |-> Some(PrivateKey("kB"))], TextEncode(<<97>>),
                       [identityKey |-> Some(PublicKey("kA"))]))))),
      Some(MessageToBytes(NewMessage(
          Some([sender |-> Some([identityKey |-> Some(PublicKey("kB"))]),
                recipient |-> Some([identityKey |-> Some(PublicKey("kA"))])]),
          None))),
      Some(MessageToBytes(NewMessage(
          None,
          Some(Encrypt([identityKey |-> Some(PrivateKey("kB"))], TextEncode(<<97>>),
                       [identityKey |-> Some(PublicKey("kA"))]))))) }

PeerPublishes(contentTopic, payload) ==
    /\ Events < MaxEvents
    /\ injected' = injected + 1
    /\ inflight' = inflight (+) SetToBag({[payload |-> payload, contentTopic |-> contentTopic]})
    /\ UNCHANGED <<sends, encryptLog, relaySent, observers, streams, pending, list,
                 topics, keystores, creates>>

----------------------------------------------------------------------------
(* listMessages(recipient, opts), lines 155-213                             *)

WeekMs == 604800000

\* new Date(new Date().toUTCString()): toUTCString has no milliseconds
DateOfUTCString(ms) == (ms \div 1000) * 1000

\* Lines 159-173: an option is defaulted when it is falsy, so is a pageSize of 0
ListDefaults(opts, now) ==
    [startTime |-> IF IsSome(opts.startTime) THEN Get(opts.startTime) ELSE now - WeekMs,
     endTime |-> IF IsSome(opts.endTime) THEN Get(opts.endTime) ELSE DateOfUTCString(now),
     pageSize |-> IF IsSome(opts.pageSize) /\ Get(opts.pageSize) # 0
                  THEN Get(opts.pageSize) ELSE 10]

\* The call, up to `await this.waku.store.queryHistory(...)`; one call at a
\* time: the caller awaits a call before it makes the next
ListMessages(recipient, opts, now) ==
    /\ list.pc \in {"idle", "resolved", "rejected"}
    /\ LET o == ListDefaults(opts, now)
           call == [IdleList EXCEPT !.recipient = recipient,
                                    !.opts = [pageSize |-> Some(o.pageSize),
                                              startTime |-> Some(o.startTime),
                                              endTime |-> Some(o.endTime)]]
       IN
       IF ~IsSome(recipient.identityKey)
       THEN list' = [call EXCEPT !.pc = "rejected", !.error = "missing recipient"]
       ELSE LET contentTopic == buildContentTopic(
                    getEthereumAddress(getPublicKey(Get(recipient.identityKey))))
            IN list' = [call EXCEPT
                   !.pc = "queryHistory",
                   !.queries = {[contentTopics |-> <<contentTopic>>,
                                 pageSize |-> o.pageSize,
                                 pageDirection |-> "FORWARD",
                                 startTime |-> o.startTime,
                                 endTime |-> o.endTime]}]
    /\ UNCHANGED <<sends, encryptLog, relaySent, inflight, observers, streams, pending, injected,
                 topics, keystores, creates>>

\* The map callback failing on an envelope without ciphertext or sender
MapStartRejectingUndecryptable(wakuMsg) ==
    IF ~Decodable(Get(wakuMsg.payload))
    THEN [state |-> "rejected", error |-> "MalformedEnvelopeError", msg |-> None,
          decrypt |-> FALSE]
    ELSE LET msg == MessageFromBytes(Get(wakuMsg.payload)) IN
         IF IsSome(msg.ciphertext) /\ IsSome(msg.header)
            /\ IsSome(Get(msg.header).sender)
         THEN [state |-> "pending", error |-> "", msg |-> Some(msg), decrypt |-> TRUE]
         ELSE [state |-> "rejected", error |-> "MalformedEnvelopeError", msg |-> None,
               decrypt |-> FALSE]

\* Lines 200-211, the map callback from its start to its first suspension
\* point or its end: the promise it returns, and whether recipient.decrypt
\* was called
MapStart(wakuMsg) ==
    IF ~Decodable(Get(wakuMsg.payload))
    THEN [state |-> "rejected", error |-> "MalformedEnvelopeError", msg |-> None,
          decrypt |-> FALSE]
    ELSE LET msg == MessageFromBytes(Get(wakuMsg.payload)) IN
         IF IsSome(msg.ciphertext) /\ IsSome(msg.header)
            /\ IsSome(Get(msg.header).sender)
         THEN [state |-> "pending", error |-> "", msg |-> Some(msg), decrypt |-> TRUE]
         ELSE [state |-> "fulfilled", error |-> "", msg |-> Some(msg), decrypt |-> FALSE]

\* The map callback catching a failure of recipient.decrypt
MapResumeCatching(recipient, promise) ==
    LET msg == Get(promise.msg)
        r == Decrypt(recipient, Get(msg.ciphertext), Get(Get(msg.header).sender))
    IN IF r.ok
       THEN [promise EXCEPT !.state = "fulfilled",
                            !.msg = Some([msg EXCEPT !.decrypted = Some(TextDecode(r.bytes))])]
       ELSE [promise EXCEPT !.state = "fulfilled"]

\* The map callback after `await recipient.decrypt(...)`
MapResume(recipient, promise) ==
    LET msg == Get(promise.msg)
        r == Decrypt(recipient, Get(msg.ciphertext), Get(Get(msg.header).sender))
    IN IF r.ok
       THEN [promise EXCEPT !.state = "fulfilled",
                            !.msg = Some([msg EXCEPT !.decrypted = Some(TextDecode(r.bytes))])]
       ELSE [promise EXCEPT !.state = "rejected", !.error = "DecryptionError"]

RECURSIVE FilterPayload(_)
FilterPayload(wakuMsgs) ==
    IF wakuMsgs = <<>> THEN <<>>
    ELSE (IF IsSome(Head(wakuMsgs).payload) THEN <<Head(wakuMsgs)>> ELSE <<>>)
         \o FilterPayload(Tail(wakuMsgs))

\* Promise.all resolving as soon as one promise is fulfilled, with the values
\* that are there
PromiseAllEager(l, rejectedFirst) ==
    IF l.pc \in {"resolved", "rejected"} THEN l
    ELSE IF rejectedFirst \in DOMAIN l.promises
    THEN [l EXCEPT !.pc = "rejected", !.error = l.promises[rejectedFirst].error]
    ELSE IF \/ l.promises = <<>>
            \/ \E k \in DOMAIN l.promises : l.promises[k].state = "fulfilled"
    THEN [l EXCEPT !.pc = "resolved",
                   !.result = SelectSeq([k \in DOMAIN l.promises |-> l.promises[k]],
                                        LAMBDA q : q.state = "fulfilled")]
    ELSE [l EXCEPT !.pc = "decrypting"]

\* Promise.all over the promises of call l, where the promise that settled
\* first among the rejected ones is rejectedFirst
PromiseAll(l, rejectedFirst) ==
    IF l.pc \in {"resolved", "rejected"} THEN l
    ELSE IF rejectedFirst \in DOMAIN l.promises
    THEN [l EXCEPT !.pc = "rejected", !.error = l.promises[rejectedFirst].error]
    ELSE IF \A k \in DOMAIN l.promises : l.promises[k].state = "fulfilled"
    THEN [l EXCEPT !.pc = "resolved",
                   !.result = [k \in DOMAIN l.promises |-> Get(l.promises[k].msg)]]
    ELSE [l EXCEPT !.pc = "decrypting"]

FirstRejected(promises) ==
    LET R == {k \in DOMAIN promises : promises[k].state = "rejected"}
    IN IF R = {} THEN 0 ELSE CHOOSE k \in R : \A m \in R : k <= m

\* store.queryHistory settles; on success the items are filtered and mapped,
\* every map callback running up to its decrypt
QuerySettles(ok, wakuMsgs) ==
    /\ list.pc = "queryHistory"
    /\ IF ~ok
       THEN list' = [list EXCEPT !.pc = "rejected", !.error = "TransportError"]
       ELSE LET kept == FilterPayload(wakuMsgs)
                promises == [k \in DOMAIN kept |-> MapStart(kept[k])]
            IN list' = PromiseAll([list EXCEPT !.promises = promises],
                                  FirstRejected(promises))
    /\ UNCHANGED <<sends, encryptLog, relaySent, inflight, observers, streams, pending, injected,
                 topics, keystores, creates>>

\* recipient.decrypt settles for item k of the call
ListDecryptSettles(k) ==
    /\ k \in DOMAIN list.promises
    /\ list.promises[k].state = "pending"
    /\ LET promise == MapResume(list.recipient, list.promises[k])
           \* a decrypt settles while one of an earlier item is pending
           earlier == \E j \in 1..(k - 1) : list.promises[j].state = "pending"
       IN list' = PromiseAll([list EXCEPT !.promises[k] = promise,
                                          !.outOfOrder = @ \/ earlier],
                             IF promise.state = "rejected" THEN k ELSE 0)
    /\ UNCHANGED <<sends, encryptLog, relaySent, inflight, observers, streams, pending, injected,
                 topics, keystores, creates>>

\* What the store can hold: the payloads of the peers, and an envelope kB
\* encrypted for itself
StoreItems ==
    {[payload |-> p] : p \in PeerPayloads}
    \cup {[payload |-> Some(MessageToBytes(NewMessage(
             Some([sender |-> Some([identityKey |-> Some(PublicKey("kB"))]),
                   recipient |-> Some([identityKey |-> Some(PublicKey("kB"))])]),
             Some(Encrypt([identityKey |-> Some(PrivateKey("kB"))], TextEncode(<<55357>>),
                          [identityKey |-> Some(PublicKey("kB"))])))))]}

StoreResults == UNION {[1..n -> StoreItems] : n \in 0..MaxItems}

Now == WeekMs + 1234

\* No options, every option, and a page size of 0
ListOptions ==
    { [pageSize |-> None, startTime |-> None, endTime |-> None],
      [pageSize |-> Some(25), startTime |-> Some(5000), endTime |-> Some(Now - 1)],
      [pageSize |-> Some(0), startTime |-> None, endTime |-> None] }

----------------------------------------------------------------------------
(* buildContentTopic(name) on its own, line 23                              *)

\* Identifiers to derive topics of: the empty one, the addresses of the keys,
\* and strings that hold pieces of the topic format
Identifiers == {"", "a", "a/proto", "0xA11ce", "0xB0b"}

\* buildContentTopic applied to an identifier: the template literal of line 23
\* has no failure, every string gets a topic
DeriveTopic(name) ==
    /\ Events < MaxEvents
    /\ topics' = topics \cup {[name |-> name, topic |-> Some(buildContentTopic(name)),
                              error |-> ""]}
    /\ UNCHANGED <<messaging, keystores, creates>>

----------------------------------------------------------------------------
(* Client.create(opts) and client.close(), lines 32-77                      *)

\* A create call: where it is, the state of the waku node it made, the error
\* caught at line 64, the error it rejected with, whether it returned a
\* Client, and whether close() of that client is running
CreateCall ==
    [pc |-> "wakuCreate", waku |-> "none", caught |-> "", error |-> "",
     client |-> FALSE, closing |-> FALSE]

\* The call up to `await Waku.create(...)`
Create ==
    /\ Len(creates) < MaxCreates
    /\ creates' = Append(creates, CreateCall)
    /\ UNCHANGED <<messaging, topics, keystores>>

\* Waku.create settles; on success waitForConnectedPeer is called under the
\* timeout
WakuCreateSettles(c, ok) ==
    /\ c \in DOMAIN creates
    /\ creates[c].pc = "wakuCreate"
    /\ creates' = [creates EXCEPT ![c] =
           IF ok THEN [@ EXCEPT !.pc = "waitForConnectedPeer", !.waku = "running"]
           ELSE [@ EXCEPT !.pc = "rejected", !.error = "TransportError"]]
    /\ UNCHANGED <<messaging, topics, keystores>>

\* What promiseWithTimeout around waitForConnectedPeer can end in, and the
\* error the catch of line 64 gets
WaitOutcomes == {"connected", "failed", "timeout"}

WaitError(outcome) ==
    IF outcome = "timeout" THEN "timeout connecting to peers"
    ELSE IF outcome = "failed" THEN "TransportError" ELSE ""

\* The peer wait settles: on success the call goes on to sleep(5), otherwise
\* the catch block calls waku.stop()
PeerWaitSettles(c, outcome) ==
    /\ c \in DOMAIN creates
    /\ creates[c].pc = "waitForConnectedPeer"
    /\ creates' = [creates EXCEPT ![c] =
           IF outcome = "connected" THEN [@ EXCEPT !.pc = "sleep"]
           ELSE [@ EXCEPT !.pc = "stop", !.caught = WaitError(outcome)]]
    /\ UNCHANGED <<messaging, topics, keystores>>

\* `await waku.stop()` of line 65 settles: on success `throw err` runs, a
\* rejection of stop leaves the catch block as the error of create
StopSettles(c, ok) ==
    /\ c \in DOMAIN creates
    /\ creates[c].pc = "stop"
    /\ creates' = [creates EXCEPT ![c] =
           IF ok THEN [@ EXCEPT !.pc = "rejected", !.waku = "stopped",
                                !.error = creates[c].caught]
           ELSE [@ EXCEPT !.pc = "rejected", !.error = "StopError"]]
    /\ UNCHANGED <<messaging, topics, keystores>>

\* sleep(5) is over: `return new Client(waku)`
SleepSettles(c) ==
    /\ c \in DOMAIN creates
    /\ creates[c].pc = "sleep"
    /\ creates' = [creates EXCEPT ![c] = [@ EXCEPT !.pc = "resolved", !.client = TRUE]]
    /\ UNCHANGED <<messaging, topics, keystores>>

\* client.close() calls this.waku.stop()
ClientClose(c) ==
    /\ c \in DOMAIN creates
    /\ creates[c].client
    /\ ~creates[c].closing
    /\ creates[c].waku = "running"
    /\ creates' = [creates EXCEPT ![c].closing = TRUE]
    /\ UNCHANGED <<messaging, topics, keystores>>

\* The stop that close() returned settles
ClientCloseSettles(c, ok) ==
    /\ c \in DOMAIN creates
    /\ creates[c].closing
    /\ creates' = [creates EXCEPT ![c] =
           [@ EXCEPT !.closing = FALSE, !.waku = IF ok THEN "stopped" ELSE @]]
    /\ UNCHANGED <<messaging, topics, keystores>>

----------------------------------------------------------------------------
(* KeyGeneratorKeystoreProvider.newKeystore(opts, apiClient, wallet)        *)

Wallets == {"w1", "w2"}

\* The options of a call: with or without preCreateIdentityNotifier
KeystoreProviderOptions == {[preCreateIdentityNotifier |-> b] : b \in BOOLEAN}

KeystoreCall(opts, wallet) ==
    [opts |-> opts, wallet |-> wallet, pc |-> "start", error |-> "",
     events |-> <<>>, keystore |-> None]

\* newKeystore calling the notifier before it looks at the wallet
NewKeystoreNotifyingFirst(opts, wallet) ==
    /\ Len(keystores) < MaxKeystores
    /\ LET call == KeystoreCall(opts, wallet)
           notified == IF opts.preCreateIdentityNotifier
                       THEN [call EXCEPT !.events = <<"preCreateIdentityNotifier">>]
                       ELSE call
       IN keystores' = Append(keystores,
              IF ~IsSome(wallet)
              THEN [notified EXCEPT !.pc = "rejected",
                                    !.error = "KeystoreProviderUnavailableError"]
              ELSE IF opts.preCreateIdentityNotifier
              THEN [notified EXCEPT !.pc = "notifier"]
              ELSE [notified EXCEPT !.pc = "generate"])
    /\ UNCHANGED <<messaging, topics, creates>>

\* The call up to its first suspension point: without a wallet it fails as
\* unavailable, with one it invokes the notifier if there is one
NewKeystore(opts, wallet) ==
    /\ Len(keystores) < MaxKeystores
    /\ LET call == KeystoreCall(opts, wallet)
       IN keystores' = Append(keystores,
              IF ~IsSome(wallet)
              THEN [call EXCEPT !.pc = "rejected",
                                !.error = "KeystoreProviderUnavailableError"]
              ELSE IF opts.preCreateIdentityNotifier
              THEN [call EXCEPT !.pc = "notifier",
                                !.events = <<"preCreateIdentityNotifier">>]
              ELSE [call EXCEPT !.pc = "generate"])
    /\ UNCHANGED <<messaging, topics, creates>>

\* preCreateIdentityNotifier returns
NotifierSettles(c) ==
    /\ c \in DOMAIN keystores
    /\ keystores[c].pc = "notifier"
    /\ keystores' = [keystores EXCEPT ![c].pc = "generate"]
    /\ UNCHANGED <<messaging, topics, creates>>

\* The identity is generated, the notifier being invoked only afterwards
GenerateIdentityThenNotify(c) ==
    /\ c \in DOMAIN keystores
    /\ keystores[c].pc = "generate"
    /\ keystores' = [keystores EXCEPT
           ![c].pc = "keystore",
           ![c].events = IF keystores[c].opts.preCreateIdentityNotifier
                         THEN <<"generate", "preCreateIdentityNotifier">>
                         ELSE <<"generate">>]
    /\ UNCHANGED <<messaging, topics, creates>>

\* The identity keys are generated and authorized by the wallet
GenerateIdentity(c) ==
    /\ c \in DOMAIN keystores
    /\ keystores[c].pc = "generate"
    /\ keystores' = [keystores EXCEPT ![c].pc = "keystore",
                                      ![c].events = Append(@, "generate")]
    /\ UNCHANGED <<messaging, topics, creates>>

\* The keystore is built around the identity and the call resolves with it
KeystoreCreated(c) ==
    /\ c \in DOMAIN keystores
    /\ keystores[c].pc = "keystore"
    /\ keystores' = [keystores EXCEPT
           ![c].pc = "ready",
           ![c].events = Append(@, "keystore"),
           ![c].keystore = Some([identity |-> Get(keystores[c].wallet)])]
    /\ UNCHANGED <<messaging, topics, creates>>

----------------------------------------------------------------------------

NextSend ==
    \/ \E sender \in Senders, recipient \in KeyBundles, msgString \in Plaintexts :
          SendMessage(sender, recipient, msgString)
    \/ \E i \in DOMAIN sends, ok \in BOOLEAN : EncryptSettles(i, ok)
    \/ \E i \in DOMAIN sends : FromBytesSettles(i)
    \/ \E i \in DOMAIN sends, ok \in BOOLEAN : RelaySendSettles(i, ok)

NextStream ==
    \/ \E recipient \in PrivateKeyBundles : StreamMessages(recipient)
    \/ \E s \in DOMAIN streams : Close(s)
    \/ \E wakuMsg \in BagToSet(inflight) : Deliver(wakuMsg)
    \/ \E task \in BagToSet(pending) : DecryptSettles(task)
    \/ \E contentTopic \in Topics, payload \in PeerPayloads :
          PeerPublishes(contentTopic, payload)

NextStreamCalls ==
    \/ \E recipient \in PrivateKeyBundles : StreamMessages(recipient)
    \/ \E s \in DOMAIN streams : Close(s)
    \/ \E wakuMsg \in BagToSet(inflight) : Deliver(wakuMsg)
    \/ \E task \in BagToSet(pending) : DecryptSettles(task)

Next == NextSend \/ NextStreamCalls

\* Senders, recipients with streams, and the other peers of the network
Spec == Init /\ [][Next]_vars

\* sendMessage calls alone
SpecSend == Init /\ [][NextSend]_vars

\* Streams fed by the other peers of the network
SpecStream == Init /\ [][NextStream]_vars

NextList ==
    \/ \E recipient \in PrivateKeyBundles, opts \in ListOptions :
          ListMessages(recipient, opts, Now)
    \/ \E wakuMsgs \in StoreResults : QuerySettles(TRUE, wakuMsgs)
    \/ QuerySettles(FALSE, <<>>)
    \/ \E k \in DOMAIN list.promises : ListDecryptSettles(k)
    \/ \E recipient \in PrivateKeyBundles : StreamMessages(recipient)

\* listMessages calls against the store, next to streamMessages calls
SpecList == Init /\ [][NextList]_vars

NextStore ==
    \/ \E recipient \in PrivateKeyBundles, opts \in ListOptions :
          ListMessages(recipient, opts, Now)
    \/ \E wakuMsgs \in StoreResults : QuerySettles(TRUE, wakuMsgs)
    \/ QuerySettles(FALSE, <<>>)
    \/ \E k \in DOMAIN list.promises : ListDecryptSettles(k)

\* listMessages calls against the store alone
SpecStore == Init /\ [][NextStore]_vars

\* The bundles that hold an identity key
WithIdentityKey(bundles) == {b \in bundles : IsSome(b.identityKey)}

NextTopic ==
    \/ \E name \in Identifiers : DeriveTopic(name)
    \/ \E sender \in Senders, recipient \in WithIdentityKey(KeyBundles) :
          SendMessage(sender, recipient, <<97>>)
    \/ \E i \in DOMAIN sends : EncryptSettles(i, TRUE)
    \/ \E i \in DOMAIN sends : FromBytesSettles(i)
    \/ \E i \in DOMAIN sends : RelaySendSettles(i, TRUE)
    \/ \E recipient \in WithIdentityKey(PrivateKeyBundles) : StreamMessages(recipient)
    \/ \E wakuMsg \in BagToSet(inflight) : Deliver(wakuMsg)
    \/ \E task \in BagToSet(pending) : DecryptSettles(task)
    \/ \E recipient \in WithIdentityKey(PrivateKeyBundles) :
          ListMessages(recipient, [pageSize |-> None, startTime |-> None, endTime |-> None],
                       Now)

NextCreate ==
    \/ Create
    \/ \E c \in DOMAIN creates, ok \in BOOLEAN : WakuCreateSettles(c, ok)
    \/ \E c \in DOMAIN creates, outcome \in WaitOutcomes : PeerWaitSettles(c, outcome)
    \/ \E c \in DOMAIN creates, ok \in BOOLEAN : StopSettles(c, ok)
    \/ \E c \in DOMAIN creates : SleepSettles(c)
    \/ \E c \in DOMAIN creates : ClientClose(c)
    \/ \E c \in DOMAIN creates, ok \in BOOLEAN : ClientCloseSettles(c, ok)

\* Clients being created and closed
SpecCreate == Init /\ [][NextCreate]_vars

NextKeystore ==
    \/ \E opts \in KeystoreProviderOptions, wallet \in {None} \cup {Some(w) : w \in Wallets} :
          NewKeystore(opts, wallet)
    \/ \E c \in DOMAIN keystores : NotifierSettles(c)
    \/ \E c \in DOMAIN keystores : GenerateIdentity(c)
    \/ \E c \in DOMAIN keystores : KeystoreCreated(c)

\* newKeystore calls of a key generator provider
SpecKeystore == Init /\ [][NextKeystore]_vars

\* Topics derived from identifiers, and messages on their way from senders to
\* the streams of recipients when no collaborator fails
SpecTopic == Init /\ [][NextTopic]_vars

----------------------------------------------------------------------------
(* Properties                                                               *)

\* The messages the promise of stream s has produced so far
Yielded(s) ==
    IF streams[s].promise.state = "fulfilled" THEN streams[s].promise.value ELSE <<>>

\* The relay has delivered everything and every callback has run to its end
AllDelivered == inflight = EmptyBag /\ pending = EmptyBag

\* No callback of stream s is suspended
Settled(s) == \A task \in BagToSet(pending) : task.stream # s

HasCiphertextAndSender(msg) ==
    IsSome(msg.ciphertext) /\ IsSome(msg.header) /\ IsSome(Get(msg.header).sender)

\* A payload that decodes to an envelope with ciphertext and sender which the
\* recipient can decrypt
Valid(recipient, payload) ==
    /\ IsSome(payload)
    /\ Decodable(Get(payload))
    /\ LET msg == MessageFromBytes(Get(payload)) IN
       /\ HasCiphertextAndSender(msg)
       /\ Decrypt(recipient, Get(msg.ciphertext), Get(Get(msg.header).sender)).ok

Malformed(payload) == IsSome(payload) /\ ~Decodable(Get(payload))

\* C1: when a send to R's public bundle has succeeded while R had a stream that
\* was not cancelled, send published on the topic that stream observes and,
\* once the relay has delivered everything and every decrypt has settled, the
\* stream has yielded a message whose plaintext is the one sent.
C1_SentIsStreamed ==
    \A i \in DOMAIN sends : \A s \in sends[i].activeAtSend :
        (/\ sends[i].pc = "resolved"
         /\ sends[i].recipient = getKeyBundle(streams[s].recipient)
         /\ streams[s].closes = 0)
        => /\ sends[i].contentTopic = streams[s].contentTopic
           /\ AllDelivered =>
                 \E k \in DOMAIN Yielded(s) :
                     Yielded(s)[k].decrypted = Some(sends[i].msgString)

\* C2: once the cancellation handle of a stream has been invoked, its observer
\* is not registered with the relay and its promise yields nothing new; a
\* further invocation leaves the registry as it is.
C2_CancelDeregisters ==
    [][\A s \in DOMAIN streams :
          streams'[s].closes > 0 =>
             /\ [contentTopic |-> streams[s].contentTopic,
                 callback |-> ObserverOf(s)] \notin observers'
             /\ streams[s].closes > 0 =>
                   /\ streams'[s].promise = streams[s].promise
                   /\ observers' = observers]_vars

\* C3: a stream yields every valid payload delivered on its topic before it is
\* cancelled, not only the first: once everything delivered has been handled,
\* it has yielded at least as many messages as valid payloads were delivered.
C3_EveryPayloadYielded ==
    \A s \in DOMAIN streams :
        (streams[s].error = "" /\ AllDelivered) =>
            Len(Yielded(s)) >=
                Cardinality({k \in DOMAIN streams[s].delivered :
                                /\ ~streams[s].delivered[k].cancelled
                                /\ Valid(streams[s].recipient,
                                         streams[s].delivered[k].payload)})

\* C4: a payload that fails to decode is skipped: the observer stays
\* registered, nothing is yielded for it and no error settles the stream; when
\* one malformed payload is followed by one valid payload, the stream yields
\* exactly one message, the valid one, with its plaintext attached.
C4_MalformedSkipped ==
    \A s \in DOMAIN streams :
        LET d == streams[s].delivered IN
        (streams[s].error = "" /\ Len(d) >= 1 /\ Malformed(d[1].payload)) =>
            /\ Registered(s)
            /\ Len(d) = 1 => streams[s].promise = PendingPromise
            /\ (Len(d) = 2 /\ Valid(streams[s].recipient, d[2].payload) /\ Settled(s)) =>
                  /\ Len(Yielded(s)) = 1
                  /\ MessageToBytes(Yielded(s)[1]) = Get(d[2].payload)
                  /\ IsSome(Yielded(s)[1].decrypted)

C4_Witness ==
    \E s \in DOMAIN streams :
        LET d == streams[s].delivered IN
        /\ Len(d) = 2
        /\ Malformed(d[1].payload)
        /\ Valid(streams[s].recipient, d[2].payload)
        /\ Settled(s)
        /\ Len(Yielded(s)) = 1

\* C5: every message a stream yields has ciphertext and a sender header and
\* carries the decrypted plaintext.
C5_YieldedAreDecrypted ==
    \A s \in DOMAIN streams : \A k \in DOMAIN Yielded(s) :
        /\ HasCiphertextAndSender(Yielded(s)[k])
        /\ IsSome(Yielded(s)[k].decrypted)

\* C6: of two streams on the same topic, the one whose handle has been invoked
\* has lost its observer, and the one whose handle has not been invoked has
\* kept its own.
C6_CancelRemovesOwnObserver ==
    \A s1, s2 \in DOMAIN streams :
        (/\ s1 # s2
         /\ streams[s1].error = ""
         /\ streams[s2].error = ""
         /\ streams[s1].contentTopic = streams[s2].contentTopic)
        => (Registered(s1) <=> streams[s1].closes = 0)

\* C7: a sendMessage call whose recipient has no identity key is rejected with
\* "missing recipient" and has called neither encrypt nor relay.send.
C7_MissingRecipientBeforeCollaborators ==
    \A i \in DOMAIN sends :
        ~IsSome(sends[i].recipient.identityKey) =>
            /\ sends[i].pc = "rejected"
            /\ sends[i].error = "missing recipient"
            /\ EncryptCalls(i) = {}
            /\ RelaySendCalls(i) = {}

C7_Witness ==
    \E i \in DOMAIN sends :
        /\ ~IsSome(sends[i].recipient.identityKey)
        /\ sends[i].pc = "rejected"

\* C8: a streamMessages call with a bundle without identity key has thrown
\* "missing recipient" and registered no observer; a listMessages call with
\* such a bundle is rejected with "missing recipient" and has queried nothing.
C8_MissingRecipientBeforeTransport ==
    /\ \A s \in DOMAIN streams :
          ~IsSome(streams[s].recipient.identityKey) =>
              /\ streams[s].error = "missing recipient"
              /\ \A o \in observers : o.callback # ObserverOf(s)
    /\ (list.pc # "idle" /\ ~IsSome(list.recipient.identityKey)) =>
          /\ list.pc = "rejected"
          /\ list.error = "missing recipient"
          /\ list.queries = {}

C8_Witness ==
    /\ \E s \in DOMAIN streams : streams[s].error = "missing recipient"
    /\ list.pc = "rejected"
    /\ list.error = "missing recipient"

\* C9: a sendMessage call calls relay.send at most once, and exactly once with
\* the relay accepting the message when the call resolves; the message is on
\* the topic of the recipient's address and its payload is the envelope of
\* header {sender's public bundle, recipient} and the ciphertext encrypt
\* returned; a rejected relay.send rejects the call with that failure.
C9_OnePublish ==
    \A i \in DOMAIN sends :
        LET c == sends[i] IN
        /\ Cardinality(RelaySendCalls(i)) <= 1
        /\ c.pc = "resolved" =>
              /\ Cardinality(RelaySendCalls(i)) = 1
              /\ \A e \in RelaySendCalls(i) :
                    /\ e.outcome = "fulfilled"
                    /\ BagIn(e.wakuMsg, inflight)
        /\ \A e \in RelaySendCalls(i) :
              /\ e.wakuMsg.contentTopic =
                    buildContentTopic(getEthereumAddress(Get(c.recipient.identityKey)))
              /\ e.wakuMsg.payload =
                    Some(MessageToBytes(NewMessage(
                        Some([sender |-> Some(getKeyBundle(c.sender)),
                              recipient |-> Some(c.recipient)]),
                        Some(Encrypt(c.sender, TextEncode(c.msgString), c.recipient)))))
              /\ e.outcome = "rejected" =>
                    c.pc = "rejected" /\ c.error = "TransportError"

C9_Witness ==
    /\ \E i \in DOMAIN sends :
          sends[i].pc = "resolved" /\ Cardinality(RelaySendCalls(i)) = 1
    /\ \E i \in DOMAIN sends :
          sends[i].error = "TransportError" /\ Cardinality(RelaySendCalls(i)) = 1

\* C10: when encrypt rejects, the sendMessage call is rejected with that
\* failure and has built no message and called relay.send not at all.
C10_EncryptFailureStopsSend ==
    \A e \in encryptLog :
        e.outcome = "rejected" =>
            /\ sends[e.call].pc = "rejected"
            /\ sends[e.call].error = "EncryptionError"
            /\ sends[e.call].wakuMsg = None
            /\ RelaySendCalls(e.call) = {}

C10_Witness ==
    \E e \in encryptLog :
        e.outcome = "rejected" /\ sends[e.call].error = "EncryptionError"

\* C11: every payload sendMessage hands to relay.send is the serialized header
\* and ciphertext alone: the plaintext, which the message object carries when
\* it is serialized, adds no component to the payload, and decoding the
\* payload gives a message without plaintext.
C11_PayloadWithoutPlaintext ==
    \A e \in relaySent :
        LET c == sends[e.call]
            bytes == Get(e.wakuMsg.payload)
        IN /\ Get(c.msg).decrypted = Some(c.msgString)
           /\ Len(bytes) = 3
           /\ bytes = <<"envelope", Get(c.msg).header, Get(c.msg).ciphertext>>
           /\ MessageFromBytes(bytes).decrypted = None

C11_Witness ==
    \E e \in relaySent :
        /\ e.outcome = "fulfilled"
        /\ Get(sends[e.call].msg).decrypted = Some(sends[e.call].msgString)

\* C12: when store.queryHistory answers, listMessages makes one promise per
\* store item that has a payload, in the order of the store's answer; when it
\* resolves, every one of these is fulfilled and the result holds their
\* messages position for position, each the envelope of its store item,
\* whatever the order in which the decrypts completed.
C12_ResultInStoreOrder ==
    [][/\ \A wakuMsgs \in StoreResults :
             QuerySettles(TRUE, wakuMsgs) =>
                LET kept == FilterPayload(wakuMsgs) IN
                /\ Len(list'.promises) = Len(kept)
                /\ Len(kept) = Cardinality({k \in DOMAIN wakuMsgs :
                                               IsSome(wakuMsgs[k].payload)})
                /\ \A k \in DOMAIN kept :
                      /\ IsSome(kept[k].payload)
                      /\ Decodable(Get(kept[k].payload)) =>
                            list'.promises[k].msg =
                                Some(MessageFromBytes(Get(kept[k].payload)))
       /\ \A k \in DOMAIN list.promises :
             \A j \in DOMAIN list.promises :
                ListDecryptSettles(k) /\ j # k =>
                   /\ list'.promises[j] = list.promises[j]
                   /\ MessageToBytes(Get(list'.promises[k].msg)) =
                         MessageToBytes(Get(list.promises[k].msg))
       /\ list'.pc = "resolved" =>
             /\ \A k \in DOMAIN list'.promises :
                   list'.promises[k].state = "fulfilled"
             /\ DOMAIN list'.result = DOMAIN list'.promises
             /\ \A k \in DOMAIN list'.promises :
                   list'.result[k] = Get(list'.promises[k].msg)]_vars

\* A call resolved with two messages whose second decrypt completed first
C12_Witness ==
    /\ list.pc = "resolved"
    /\ Len(list.result) = 2
    /\ list.outOfOrder
    /\ \A k \in DOMAIN list.result : IsSome(list.result[k].decrypted)

\* recipient.decrypt was called for item k of the call, has settled, and failed
DecryptFailed(k) ==
    LET promise == list.promises[k]
        msg == Get(promise.msg)
    IN /\ promise.decrypt
       /\ promise.state # "pending"
       /\ ~Decrypt(list.recipient, Get(msg.ciphertext), Get(Get(msg.header).sender)).ok

\* C13: once the decrypt of any item of a listMessages call has failed, the
\* call is rejected with the error of a failed item and has no result, however
\* many of the other items were decrypted.
C13_DecryptFailureRejects ==
    (\E k \in DOMAIN list.promises : DecryptFailed(k)) =>
        /\ list.pc = "rejected"
        /\ list.result = <<>>
        /\ \E k \in DOMAIN list.promises :
              /\ list.promises[k].state = "rejected"
              /\ list.error = list.promises[k].error

\* A call rejected by a failed decrypt after another item was decrypted
C13_Witness ==
    /\ list.pc = "rejected"
    /\ list.error = "DecryptionError"
    /\ \E k \in DOMAIN list.promises : DecryptFailed(k)
    /\ \E k \in DOMAIN list.promises :
          /\ list.promises[k].state = "fulfilled"
          /\ IsSome(Get(list.promises[k].msg).decrypted)

\* What the map callback of listMessages makes of a decodable payload, once
\* it is through with it
Mapped(recipient, payload) ==
    LET msg == MessageFromBytes(payload) IN
    IF HasCiphertextAndSender(msg)
    THEN [msg EXCEPT !.decrypted =
             Some(TextDecode(Decrypt(recipient, Get(msg.ciphertext),
                                     Get(Get(msg.header).sender)).bytes))]
    ELSE msg

\* C15: listMessages makes no promise for a store item without payload; for a
\* decodable envelope that lacks ciphertext or sender it does not call decrypt
\* and returns the envelope as a message without plaintext; for an envelope
\* with both it calls decrypt and returns the message with the decoded
\* plaintext.
C15_ListFiltersAndDecrypts ==
    [][/\ \A wakuMsgs \in StoreResults :
             QuerySettles(TRUE, wakuMsgs) =>
                LET kept == FilterPayload(wakuMsgs) IN
                /\ Len(list'.promises) =
                      Cardinality({k \in DOMAIN wakuMsgs : IsSome(wakuMsgs[k].payload)})
                /\ \A k \in DOMAIN kept :
                      Decodable(Get(kept[k].payload)) =>
                         LET msg == MessageFromBytes(Get(kept[k].payload))
                             promise == list'.promises[k]
                         IN /\ promise.decrypt = HasCiphertextAndSender(msg)
                            /\ ~HasCiphertextAndSender(msg) =>
                                  /\ promise.state = "fulfilled"
                                  /\ promise.msg = Some(msg)
                                  /\ msg.decrypted = None
                /\ list'.pc = "resolved" =>
                      list'.result =
                         [k \in DOMAIN kept |-> Mapped(list.recipient, Get(kept[k].payload))]
       /\ \A k \in DOMAIN list.promises :
             ListDecryptSettles(k) /\ list'.promises[k].state = "fulfilled" =>
                /\ list.promises[k].decrypt
                /\ Get(list'.promises[k].msg) =
                      Mapped(list.recipient, MessageToBytes(Get(list.promises[k].msg)))
       /\ list'.pc = "resolved" =>
             \A k \in DOMAIN list'.result :
                LET msg == list'.result[k] IN
                /\ list'.promises[k].decrypt = HasCiphertextAndSender(msg)
                /\ IsSome(msg.decrypted) = HasCiphertextAndSender(msg)
                /\ msg = Mapped(list'.recipient, MessageToBytes(msg))]_vars

\* A call resolved with an envelope that lacks ciphertext or sender, without
\* plaintext and without a decrypt call, next to a decrypted one
C15_Witness ==
    /\ list.pc = "resolved"
    /\ \E k \in DOMAIN list.result :
          /\ ~HasCiphertextAndSender(list.result[k])
          /\ list.result[k].decrypted = None
          /\ ~list.promises[k].decrypt
    /\ \E k \in DOMAIN list.result :
          /\ HasCiphertextAndSender(list.result[k])
          /\ list.result[k].decrypted = Some(<<97>>)

\* C14: a listMessages call that reaches the store queries it with every
\* option the caller supplied, unchanged, and with now - 7 days, now and 10
\* for an unset startTime, endTime and pageSize, in forward direction.
C14_ListQueryDefaults ==
    [][\A recipient \in PrivateKeyBundles, opts \in ListOptions :
          ListMessages(recipient, opts, Now) =>
             \A q \in list'.queries :
                /\ q.pageDirection = "FORWARD"
                /\ q.startTime = IF IsSome(opts.startTime) THEN Get(opts.startTime)
                                 ELSE Now - WeekMs
                /\ q.endTime = IF IsSome(opts.endTime) THEN Get(opts.endTime) ELSE Now
                /\ q.pageSize = IF IsSome(opts.pageSize) THEN Get(opts.pageSize)
                                ELSE 10]_vars

Range(seq) == {seq[k] : k \in DOMAIN seq}

\* The address identifier of the identity key of a private or public bundle
AddressOf(bundle) ==
    getEthereumAddress(PublicKey(Get(bundle.identityKey).key))

\* C16: buildContentTopic gives two identifiers the same topic exactly when
\* they are the same identifier; every message a stream's observer is called
\* with that a sendMessage call published was sent to a recipient with the
\* address of the stream's recipient; and a listMessages call queries a topic
\* that only messages sent to a recipient with its recipient's address are
\* published on.
C16_TopicsSeparateRecipients ==
    /\ \A a \in topics : a.topic = Some(buildContentTopic(a.name))
    /\ \A a \in topics : \A b \in topics : (a.topic = b.topic) <=> (a.name = b.name)
    /\ \A a \in Identifiers : \A b \in Identifiers :
          (buildContentTopic(a) = buildContentTopic(b)) <=> (a = b)
    /\ \A s \in DOMAIN streams : \A k \in DOMAIN streams[s].delivered :
          \A i \in DOMAIN sends :
             LET d == streams[s].delivered[k] IN
             sends[i].wakuMsg = Some([payload |-> d.payload, contentTopic |-> d.contentTopic])
                => AddressOf(sends[i].recipient) = AddressOf(streams[s].recipient)
    /\ \A q \in list.queries : \A i \in DOMAIN sends :
          (IsSome(sends[i].wakuMsg) /\ Get(sends[i].wakuMsg).contentTopic \in Range(q.contentTopics))
             => AddressOf(sends[i].recipient) = AddressOf(list.recipient)

\* Two identifiers have got their topics, and a message was published for a
\* recipient while a recipient with another address had a stream registered
\* and has queried the store: the relay has delivered the message, and the
\* stream's observer was not called
C16_Witness ==
    /\ Cardinality(topics) >= 2
    /\ \E i \in DOMAIN sends, s \in DOMAIN streams :
          /\ sends[i].pc = "resolved"
          /\ s \in sends[i].activeAtSend
          /\ AddressOf(sends[i].recipient) # AddressOf(streams[s].recipient)
          /\ inflight = EmptyBag
          /\ streams[s].delivered = <<>>
          /\ list.pc = "queryHistory"
          /\ list.recipient = streams[s].recipient

\* C17: buildContentTopic rejects the empty identifier: a derivation for it
\* ends in an error and produces no topic.
C17_EmptyIdentifierRejected ==
    \A a \in topics : a.name = "" => (a.topic = None /\ a.error # "")

\* How often an event is in the log of a newKeystore call
Count(events, e) == Cardinality({k \in DOMAIN events : events[k] = e})

\* C18: a newKeystore call without a wallet is rejected with
\* KeystoreProviderUnavailableError, has no keystore, has generated nothing and
\* has not invoked preCreateIdentityNotifier, supplied or not.
C18_NoWalletUnavailable ==
    \A c \in DOMAIN keystores :
        ~IsSome(keystores[c].wallet) =>
            /\ keystores[c].pc = "rejected"
            /\ keystores[c].error = "KeystoreProviderUnavailableError"
            /\ keystores[c].keystore = None
            /\ keystores[c].events = <<>>

\* A call without wallet and with a notifier, next to one that became ready
C18_Witness ==
    /\ \E c \in DOMAIN keystores :
          /\ ~IsSome(keystores[c].wallet)
          /\ keystores[c].opts.preCreateIdentityNotifier
          /\ keystores[c].pc = "rejected"
    /\ \E c \in DOMAIN keystores : keystores[c].pc = "ready"

\* C19: a newKeystore call with a wallet never fails and, once it has ended,
\* is ready with a keystore for the wallet's identity; at every moment of the
\* call a supplied preCreateIdentityNotifier has been invoked exactly once and
\* before anything else, and one that was not supplied never.
C19_WalletReadyNotifiedOnce ==
    \A c \in DOMAIN keystores :
        IsSome(keystores[c].wallet) =>
            LET call == keystores[c] IN
            /\ call.pc \in {"notifier", "generate", "keystore", "ready"}
            /\ call.error = ""
            /\ (call.pc = "ready") <=> IsSome(call.keystore)
            /\ call.pc = "ready" =>
                  /\ call.keystore = Some([identity |-> Get(call.wallet)])
                  /\ Count(call.events, "generate") = 1
            /\ Count(call.events, "preCreateIdentityNotifier") =
                  (IF call.opts.preCreateIdentityNotifier THEN 1 ELSE 0)
            /\ call.opts.preCreateIdentityNotifier =>
                  Head(call.events) = "preCreateIdentityNotifier"

\* A call with wallet and notifier that is ready
C19_Witness ==
    \E c \in DOMAIN keystores :
        /\ IsSome(keystores[c].wallet)
        /\ keystores[c].opts.preCreateIdentityNotifier
        /\ keystores[c].pc = "ready"
        /\ keystores[c].events = <<"preCreateIdentityNotifier", "generate", "keystore">>

\* C20: a Client.create call whose wait for a connected peer failed or timed
\* out and that has rejected has stopped its waku node, has rejected with the
\* error of the wait and has returned no Client; no rejected call has left a
\* node running; a call has returned a Client only after its peer wait
\* succeeded.
C20_CreateStopsTransport ==
    \A c \in DOMAIN creates :
        LET call == creates[c] IN
        /\ (call.pc = "rejected" /\ call.caught # "") =>
              /\ call.waku = "stopped"
              /\ call.error = call.caught
              /\ ~call.client
        /\ call.pc = "rejected" => call.waku # "running"
        /\ call.client => (call.pc = "resolved" /\ call.caught = "")

====
